---- MODULE Spec2Model ----
(***************************************************************************)
(* Model of controller_plugin_base::ControllerBase: the control-mode       *)
(* negotiation (setControlModeSrvCall), the gated control loop             *)
(* (control_timer_callback / sendCommand) and the state / reference        *)
(* callbacks.  All callbacks run on one executor, so every handler is one  *)
(* atomic action; the answers of the platform services, of the subclass    *)
(* hooks and of the clock are inputs of the action that asks for them.     *)
(***************************************************************************)
EXTENDS Integers, Sequences, FiniteSets, TLC

\* ---------------------------------------------------------------- bounds
\* payload values carried by received samples and computed commands: 1..MaxVal
MaxVal == 1
\* time stamps and clock readings: 0..MaxTime
MaxTime == 1

\* length of the mode lists handed to a helper function called on its own
MaxLen == 3

Vals == 1..MaxVal
Times == 0..MaxTime

\* ------------------------------------------------------- program constants
MATCH_ALL == 255
MATCH_MODE_AND_FRAME == 243
MATCH_MODE == 240
UNSET_MODE_MASK == 0
HOVER_MODE_MASK == 16
\* the literal 0b1111000 (seven digits) of checkSuitabilityInputMode
LEVEL_OUT_MASK == 120

\* bitwise and of two uint8_t values
RECURSIVE BitAnd(_, _)
BitAnd(a, b) ==
  IF a = 0 \/ b = 0 THEN 0
  ELSE (a % 2) * (b % 2) + 2 * BitAnd(a \div 2, b \div 2)

\* ------------------------------------------------------------ input sets
\* mode codes of the requests the service receives (as2 ControlMode messages,
\* written as their uint8_t code: class nibble, yaw bits, frame bits)
ReqModes == {1, 16, 18, 32, 48, 85}
\* answers of the platform's list_control_modes service
PlatformLists ==
  { <<>>, <<18>>, <<1, 16>>, <<32>>, <<32, 48>>, <<40, 85>> }
\* arguments the subclass passes to setInputControlModesAvailables
InConfigs == { <<>>, <<32, 16>>, <<48, 18>> }
\* arguments the subclass passes to setOutputControlModesAvailables
OutConfigs == { <<>>, <<33, 18>>, <<18, 33>>, <<32, 48>>, <<40>> }

\* ---------------------------------------------------------------- messages
\* a stamped message (PoseStamped, TwistStamped, Thrust): payload and stamp
Msg(v, s) == [val |-> v, stamp |-> s]
\* a default-constructed message
DefaultMsg == Msg(0, 0)

\* std::sort, ascending
RECURSIVE SortAsc(_)
SortAsc(s) ==
  IF Len(s) = 0 THEN <<>>
  ELSE LET m == CHOOSE i \in 1..Len(s) : \A j \in 1..Len(s) : s[i] <= s[j]
           rest == [k \in 1..(Len(s) - 1) |-> IF k < m THEN s[k] ELSE s[k + 1]]
       IN <<s[m]>> \o SortAsc(rest)

\* ------------------------------------------------------------------- state
VARIABLES
  phase,                          \* "constructed" until initialize() has run, then "running"
  use_bypass_,
  prefered_output_mode_,
  controller_available_modes_in_,
  controller_available_modes_out_,
  platform_available_modes_in_,
  control_mode_established_,
  motion_reference_adquired_,
  state_adquired_,
  bypass_controller_,
  input_mode_,
  output_mode_,
  platform_info_,                 \* [armed, offboard]
  pose_, twist_,                  \* latest state sample
  ref_pose_, ref_twist_, ref_traj_,
  last,                           \* what the most recent handler did to the outside
  call                            \* a call of a helper function on its own: arguments, result

vars == << phase, use_bypass_, prefered_output_mode_,
           controller_available_modes_in_, controller_available_modes_out_,
           platform_available_modes_in_, control_mode_established_,
           motion_reference_adquired_, state_adquired_, bypass_controller_,
           input_mode_, output_mode_, platform_info_, pose_, twist_,
           ref_pose_, ref_twist_, ref_traj_, last, call >>

\* the outside effects of one handler run: service calls made, hooks called,
\* messages published, the response given
NoObs ==
  [ op |-> "none",
    request |-> 0, desired |-> 0, candidate |-> 0, success |-> FALSE,
    wasEstablished |-> FALSE,
    listCalls |-> 0, listAnswer |-> "none",
    platReq |-> <<>>, setMode |-> <<>>, failedAt |-> "none",
    modeFound |-> FALSE, platAccepted |-> FALSE, setModeRet |-> FALSE,
    received |-> <<>>,
    updateState |-> <<>>, updateReference |-> <<>>,
    computeOutput |-> 0, nowCalls |-> 0, now |-> 0,
    pubPose |-> <<>>, pubTwist |-> <<>>, pubThrust |-> <<>> ]

\* no helper function is called on its own
NoCall ==
  [ fn |-> "none", mode |-> 0, mode_list |-> <<>>, mask |-> 0,
    prefered |-> 0, modes_out |-> <<>>, done |-> FALSE, ok |-> FALSE, ret |-> 0 ]

\* a constructor that starts with a mode established
Init_Established ==
  /\ phase = "constructed"
  /\ use_bypass_ = FALSE
  /\ prefered_output_mode_ = 0
  /\ controller_available_modes_in_ = <<>>
  /\ controller_available_modes_out_ = <<>>
  /\ platform_available_modes_in_ = <<>>
  /\ control_mode_established_ = TRUE
  /\ motion_reference_adquired_ = FALSE
  /\ state_adquired_ = FALSE
  /\ bypass_controller_ = FALSE
  /\ input_mode_ = 0
  /\ output_mode_ = 0
  /\ platform_info_ = [armed |-> FALSE, offboard |-> FALSE]
  /\ pose_ = 0
  /\ twist_ = 0
  /\ ref_pose_ = DefaultMsg
  /\ ref_twist_ = DefaultMsg
  /\ ref_traj_ = 0
  /\ last = NoObs
  /\ call = NoCall

\* fields set by the constructor and the in-class initialisers
Init ==
  /\ phase = "constructed"
  /\ use_bypass_ = FALSE
  /\ prefered_output_mode_ = 0
  /\ controller_available_modes_in_ = <<>>
  /\ controller_available_modes_out_ = <<>>
  /\ platform_available_modes_in_ = <<>>
  /\ control_mode_established_ = FALSE
  /\ motion_reference_adquired_ = FALSE
  /\ state_adquired_ = FALSE
  /\ bypass_controller_ = FALSE
  /\ input_mode_ = 0
  /\ output_mode_ = 0
  /\ platform_info_ = [armed |-> FALSE, offboard |-> FALSE]
  /\ pose_ = 0
  /\ twist_ = 0
  /\ ref_pose_ = DefaultMsg
  /\ ref_twist_ = DefaultMsg
  /\ ref_traj_ = 0
  /\ last = NoObs
  /\ call = NoCall

\* --------------------------------------------------------- configuration
setInputControlModesAvailables(available_modes) == SortAsc(available_modes)

setOutputControlModesAvailables(available_modes) == SortAsc(available_modes)

\* initialize(): reads the use_bypass parameter, sets both modes to UNSET and
\* runs the subclass's ownInitialize, which announces the controller's modes
Initialize(bypassParam, ins, outs) ==
  /\ phase = "constructed"
  /\ phase' = "running"
  /\ use_bypass_' = bypassParam
  /\ input_mode_' = UNSET_MODE_MASK
  /\ output_mode_' = UNSET_MODE_MASK
  /\ controller_available_modes_in_' = setInputControlModesAvailables(ins)
  /\ controller_available_modes_out_' = setOutputControlModesAvailables(outs)
  /\ last' = [NoObs EXCEPT !.op = "initialize"]
  /\ UNCHANGED call
  /\ UNCHANGED << prefered_output_mode_, platform_available_modes_in_,
                  control_mode_established_, motion_reference_adquired_,
                  state_adquired_, bypass_controller_, platform_info_,
                  pose_, twist_, ref_pose_, ref_twist_, ref_traj_ >>

\* ------------------------------------------------------------ mode matching
checkMatchWithMask(mode1, mode2, mask) == BitAnd(mode1, mask) = BitAnd(mode2, mask)

\* the scan of findBestMatchWithMask from position i on, best_match so far
RECURSIVE BestMatchFrom(_, _, _, _, _)
BestMatchFrom(mode, mode_list, mask, i, best_match) ==
  IF i > Len(mode_list) THEN best_match
  ELSE LET candidate == mode_list[i] IN
       IF checkMatchWithMask(mode, candidate, mask)
       THEN IF candidate = mode THEN candidate
            ELSE BestMatchFrom(mode, mode_list, mask, i + 1, candidate)
       ELSE BestMatchFrom(mode, mode_list, mask, i + 1, best_match)

\* findBestMatchWithMask that returns at the first match under the mask
findBestMatchWithMask_FirstMatch(mode, mode_list, mask) ==
  LET hits == { i \in DOMAIN mode_list : checkMatchWithMask(mode, mode_list[i], mask) }
  IN IF hits = {} THEN 0
     ELSE mode_list[CHOOSE i \in hits : \A j \in hits : i <= j]

\* findBestMatchWithMask: the exact match, else the last match under the mask
findBestMatchWithMask(mode, mode_list, mask) ==
  BestMatchFrom(mode, mode_list, mask, 1, 0)

\* listPlatformAvailableControlModes without the test of the cached list
listPlatformAvailableControlModes_AlwaysAsks(cache, answer) ==
  IF ~answer.ok
  THEN [ret |-> FALSE, cache |-> cache, calls |-> 1, answer |-> "error"]
  ELSE IF answer.modes = <<>>
  THEN [ret |-> FALSE, cache |-> cache, calls |-> 1, answer |-> "empty"]
  ELSE [ret |-> TRUE, cache |-> answer.modes, calls |-> 1, answer |-> "modes"]

\* listPlatformAvailableControlModes with the cached list `cache`; `answer` is
\* what the list service gives if asked: [ok: the call went through, modes].
\* Returns the return value, the cache afterwards and the call made.
listPlatformAvailableControlModes(cache, answer) ==
  IF cache = <<>>
  THEN IF ~answer.ok
       THEN [ret |-> FALSE, cache |-> cache, calls |-> 1, answer |-> "error"]
       ELSE IF answer.modes = <<>>
       THEN [ret |-> FALSE, cache |-> cache, calls |-> 1, answer |-> "empty"]
       ELSE [ret |-> TRUE, cache |-> answer.modes, calls |-> 1, answer |-> "modes"]
  ELSE [ret |-> TRUE, cache |-> cache, calls |-> 0, answer |-> "none"]

\* tryToBypassController without the HOVER test of its first condition
tryToBypassController_NoHoverTest(input_mode, output_mode, platform_modes) ==
  IF BitAnd(input_mode, MATCH_MODE) = UNSET_MODE_MASK
  THEN [ret |-> FALSE, output_mode |-> output_mode]
  ELSE LET candidate_mode == findBestMatchWithMask(input_mode, platform_modes, MATCH_ALL) IN
       IF candidate_mode # 0
       THEN [ret |-> TRUE, output_mode |-> candidate_mode]
       ELSE [ret |-> FALSE, output_mode |-> output_mode]

\* tryToBypassController that also asks the controller's own input modes
tryToBypassController_AsksController(input_mode, output_mode, platform_modes) ==
  IF BitAnd(input_mode, MATCH_MODE) = UNSET_MODE_MASK
     \/ BitAnd(input_mode, MATCH_MODE) = HOVER_MODE_MASK
  THEN [ret |-> FALSE, output_mode |-> output_mode]
  ELSE LET candidate_mode == findBestMatchWithMask(input_mode, platform_modes, MATCH_ALL) IN
       IF candidate_mode # 0
          /\ findBestMatchWithMask(input_mode, controller_available_modes_in_, MATCH_ALL) # 0
       THEN [ret |-> TRUE, output_mode |-> candidate_mode]
       ELSE [ret |-> FALSE, output_mode |-> output_mode]

\* tryToBypassController: the return value and the output_mode reference
tryToBypassController(input_mode, output_mode, platform_modes) ==
  IF BitAnd(input_mode, MATCH_MODE) = UNSET_MODE_MASK
     \/ BitAnd(input_mode, MATCH_MODE) = HOVER_MODE_MASK
  THEN [ret |-> FALSE, output_mode |-> output_mode]
  ELSE LET candidate_mode == findBestMatchWithMask(input_mode, platform_modes, MATCH_ALL) IN
       IF candidate_mode # 0
       THEN [ret |-> TRUE, output_mode |-> candidate_mode]
       ELSE [ret |-> FALSE, output_mode |-> output_mode]

\* the loop of checkSuitabilityInputMode over the controller's input modes:
\* "return" (returned true inside the loop), "found" (break) or "none"
RECURSIVE InputModeScan(_, _, _)
InputModeScan(input_mode, modes_in, i) ==
  IF i > Len(modes_in) THEN "none"
  ELSE IF BitAnd(input_mode, MATCH_MODE) = HOVER_MODE_MASK
          /\ BitAnd(input_mode, MATCH_MODE) = modes_in[i]
       THEN "return"
       ELSE IF modes_in[i] = input_mode THEN "found"
       ELSE InputModeScan(input_mode, modes_in, i + 1)

\* checkSuitabilityInputMode: [ret, level, found] where level tells whether
\* the level comparison rejected the pair and found is the local mode_found
\* when the function returns
checkSuitabilityInputMode(input_mode, output_mode, modes_in) ==
  LET scan == InputModeScan(input_mode, modes_in, 1) IN
  IF scan = "return" THEN [ret |-> TRUE, level |-> FALSE, found |-> TRUE]
  ELSE IF BitAnd(input_mode, MATCH_MODE) < BitAnd(output_mode, LEVEL_OUT_MASK)
       THEN [ret |-> FALSE, level |-> TRUE, found |-> scan = "found"]
       ELSE [ret |-> scan = "found", level |-> FALSE, found |-> scan = "found"]

\* the loop of findSuitableOutputControlModeForPlatformInputMode
RECURSIVE CommonModeFrom(_, _, _, _)
CommonModeFrom(modes_out, platform_modes, i, common_mode) ==
  IF i > Len(modes_out) THEN common_mode
  ELSE LET mode_out == modes_out[i] IN
       IF BitAnd(mode_out, MATCH_MODE) = UNSET_MODE_MASK
          \/ BitAnd(mode_out, MATCH_MODE) = HOVER_MODE_MASK
       THEN CommonModeFrom(modes_out, platform_modes, i + 1, common_mode)
       ELSE CommonModeFrom(modes_out, platform_modes, i + 1,
                           findBestMatchWithMask(mode_out, platform_modes, MATCH_ALL))

\* the selection without the test that a common mode was found
findSuitableOutputControlModeForPlatformInputMode_NoZeroCheck(output_mode, prefered, modes_out, platform_modes) ==
  LET match == findBestMatchWithMask(prefered, platform_modes, MATCH_ALL)
      common_mode == CommonModeFrom(modes_out, platform_modes, 1, 0)
  IN IF prefered # 0 /\ match # 0
     THEN [ret |-> TRUE, output_mode |-> match]
     ELSE [ret |-> TRUE, output_mode |-> common_mode]

\* the selection without the look at the preferred output mode
findSuitableOutputControlModeForPlatformInputMode_NoPrefered(output_mode, prefered, modes_out, platform_modes) ==
  LET common_mode == CommonModeFrom(modes_out, platform_modes, 1, 0)
  IN IF common_mode = 0
     THEN [ret |-> FALSE, output_mode |-> output_mode]
     ELSE [ret |-> TRUE, output_mode |-> common_mode]

\* findSuitableOutputControlModeForPlatformInputMode: the preferred mode if
\* the platform lists it, else the outcome of the scan
findSuitableOutputControlModeForPlatformInputMode(output_mode, prefered, modes_out, platform_modes) ==
  LET match == findBestMatchWithMask(prefered, platform_modes, MATCH_ALL)
      common_mode == CommonModeFrom(modes_out, platform_modes, 1, 0)
  IN IF prefered # 0 /\ match # 0
     THEN [ret |-> TRUE, output_mode |-> match]
     ELSE IF common_mode = 0
          THEN [ret |-> FALSE, output_mode |-> output_mode]
          ELSE [ret |-> TRUE, output_mode |-> common_mode]

\* ------------------------------------------------- setControlModeSrvCall
\* The handler is a sequence of steps over a frame: the fields it may write,
\* its locals, and what it has done to the outside.  `returned` is set by
\* the step whose return statement ended the call.

\* entry that does not reset established
srvEntry_KeepsEstablished(request) ==
  [ request |-> request,
    desired |-> IF BitAnd(request, MATCH_MODE) = HOVER_MODE_MASK
                THEN HOVER_MODE_MASK ELSE request,
    returned |-> FALSE, success |-> FALSE, failedAt |-> "none",
    wasEstablished |-> control_mode_established_,
    established |-> control_mode_established_,
    bypass |-> bypass_controller_,
    cache |-> platform_available_modes_in_,
    candidate |-> 0, modeFound |-> FALSE,
    input_mode |-> input_mode_, output_mode |-> output_mode_,
    state_adquired |-> state_adquired_,
    reference_adquired |-> motion_reference_adquired_,
    listCalls |-> 0, listAnswer |-> "none",
    platReq |-> <<>>, setMode |-> <<>> ]

\* entry: established is reset, the desired input mode is decoded
srvEntry(request) ==
  [ request |-> request,
    desired |-> IF BitAnd(request, MATCH_MODE) = HOVER_MODE_MASK
                THEN HOVER_MODE_MASK ELSE request,
    returned |-> FALSE, success |-> FALSE, failedAt |-> "none",
    wasEstablished |-> control_mode_established_,
    established |-> FALSE,
    bypass |-> bypass_controller_,
    cache |-> platform_available_modes_in_,
    candidate |-> 0, modeFound |-> FALSE,
    input_mode |-> input_mode_, output_mode |-> output_mode_,
    state_adquired |-> state_adquired_,
    reference_adquired |-> motion_reference_adquired_,
    listCalls |-> 0, listAnswer |-> "none",
    platReq |-> <<>>, setMode |-> <<>> ]

\* the platform's modes are listed, or the call returns with failure
srvList(f, answer) ==
  LET r == listPlatformAvailableControlModes(f.cache, answer) IN
  IF r.ret
  THEN [f EXCEPT !.cache = r.cache, !.listCalls = r.calls, !.listAnswer = r.answer]
  ELSE [f EXCEPT !.cache = r.cache, !.listCalls = r.calls, !.listAnswer = r.answer,
                 !.returned = TRUE, !.success = FALSE, !.failedAt = "list"]

\* the bypass decision
srvBypass(f) ==
  IF f.returned THEN f
  ELSE IF use_bypass_
       THEN LET r == tryToBypassController(f.desired, f.candidate, f.cache) IN
            [f EXCEPT !.bypass = r.ret, !.candidate = r.output_mode]
       ELSE [f EXCEPT !.bypass = FALSE]

\* without bypass: the output mode is chosen and the input mode checked
srvNegotiate(f) ==
  IF f.returned \/ f.bypass THEN f
  ELSE LET out == findSuitableOutputControlModeForPlatformInputMode(
                    f.candidate, prefered_output_mode_,
                    controller_available_modes_out_, f.cache)
           chk == checkSuitabilityInputMode(f.desired, out.output_mode,
                                            controller_available_modes_in_)
       IN IF ~out.ret
          THEN [f EXCEPT !.returned = TRUE, !.success = FALSE, !.failedAt = "output"]
          ELSE IF ~chk.ret
          THEN [f EXCEPT !.candidate = out.output_mode, !.returned = TRUE,
                         !.success = FALSE, !.modeFound = chk.found,
                         !.failedAt = IF chk.level THEN "level" ELSE "input"]
          ELSE [f EXCEPT !.candidate = out.output_mode, !.modeFound = chk.found]

\* setPlatformControlMode: the request went through and the platform accepted
setPlatformControlMode(mode, reply) == reply.ok /\ reply.success

\* the platform request with no return when the platform rejects
srvPlatform_NoReturnOnReject(f, reply) ==
  IF f.returned THEN f
  ELSE [f EXCEPT !.platReq = <<f.candidate>>,
                 !.input_mode = f.request, !.output_mode = f.candidate]

\* the platform request with the two modes stored before the platform answers
srvPlatform_StoresFirst(f, reply) ==
  IF f.returned THEN f
  ELSE IF ~setPlatformControlMode(f.candidate, reply)
       THEN [f EXCEPT !.platReq = <<f.candidate>>, !.returned = TRUE,
                      !.input_mode = f.request, !.output_mode = f.candidate,
                      !.success = FALSE, !.failedAt = "platform"]
       ELSE [f EXCEPT !.platReq = <<f.candidate>>,
                      !.input_mode = f.request, !.output_mode = f.candidate]

\* the chosen mode is requested from the platform
srvPlatform(f, reply) ==
  IF f.returned THEN f
  ELSE IF ~setPlatformControlMode(f.candidate, reply)
       THEN [f EXCEPT !.platReq = <<f.candidate>>, !.returned = TRUE,
                      !.success = FALSE, !.failedAt = "platform"]
       ELSE [f EXCEPT !.platReq = <<f.candidate>>,
                      !.input_mode = f.request, !.output_mode = f.candidate]

\* the end of the call with the two acquired flags left as they are
srvFinish_DirectKeepsFlags(f, setModeResult) ==
  IF f.returned THEN f
  ELSE IF f.bypass
       THEN [f EXCEPT !.setMode = << <<UNSET_MODE_MASK, UNSET_MODE_MASK>> >>,
                      !.success = setModeResult, !.established = setModeResult,
                      !.returned = TRUE,
                      !.failedAt = IF setModeResult THEN "none" ELSE "setMode"]
       ELSE [f EXCEPT !.setMode = << <<f.input_mode, f.output_mode>> >>,
                      !.success = setModeResult, !.established = setModeResult,
                      !.returned = TRUE,
                      !.failedAt = IF setModeResult THEN "none" ELSE "setMode"]

\* the end of the call with the mode taken as established once the platform
\* accepted, whatever setMode answers
srvFinish_EstablishedOnAcceptance(f, setModeResult) ==
  IF f.returned THEN f
  ELSE IF f.bypass
       THEN [f EXCEPT !.setMode = << <<UNSET_MODE_MASK, UNSET_MODE_MASK>> >>,
                      !.success = setModeResult, !.established = TRUE,
                      !.returned = TRUE,
                      !.failedAt = IF setModeResult THEN "none" ELSE "setMode"]
       ELSE [f EXCEPT !.setMode = << <<f.input_mode, f.output_mode>> >>,
                      !.success = setModeResult, !.established = TRUE,
                      !.state_adquired = FALSE, !.reference_adquired = FALSE,
                      !.returned = TRUE,
                      !.failedAt = IF setModeResult THEN "none" ELSE "setMode"]

\* the end of the call with the stored modes handed to setMode on both paths
srvFinish_BypassPassesModes(f, setModeResult) ==
  IF f.returned THEN f
  ELSE IF f.bypass
       THEN [f EXCEPT !.setMode = << <<f.input_mode, f.output_mode>> >>,
                      !.success = setModeResult, !.established = setModeResult,
                      !.returned = TRUE,
                      !.failedAt = IF setModeResult THEN "none" ELSE "setMode"]
       ELSE [f EXCEPT !.setMode = << <<f.input_mode, f.output_mode>> >>,
                      !.success = setModeResult, !.established = setModeResult,
                      !.state_adquired = FALSE, !.reference_adquired = FALSE,
                      !.returned = TRUE,
                      !.failedAt = IF setModeResult THEN "none" ELSE "setMode"]

\* the subclass sets its mode; its answer ends the call
srvFinish(f, setModeResult) ==
  IF f.returned THEN f
  ELSE IF f.bypass
       THEN [f EXCEPT !.setMode = << <<UNSET_MODE_MASK, UNSET_MODE_MASK>> >>,
                      !.success = setModeResult, !.established = setModeResult,
                      !.returned = TRUE,
                      !.failedAt = IF setModeResult THEN "none" ELSE "setMode"]
       ELSE [f EXCEPT !.setMode = << <<f.input_mode, f.output_mode>> >>,
                      !.success = setModeResult, !.established = setModeResult,
                      !.state_adquired = FALSE, !.reference_adquired = FALSE,
                      !.returned = TRUE,
                      !.failedAt = IF setModeResult THEN "none" ELSE "setMode"]

SetControlModeSrvCall(request, answer, reply, setModeResult) ==
  /\ phase = "running"
  /\ \E f1 \in {srvEntry(request)} :
     \E f2 \in {srvList(f1, answer)} :
     \E f3 \in {srvBypass(f2)} :
     \E f4 \in {srvNegotiate(f3)} :
     \E f5 \in {srvPlatform(f4, reply)} :
     \E f \in {srvFinish(f5, setModeResult)} :
     /\ control_mode_established_' = f.established
     /\ bypass_controller_' = f.bypass
     /\ platform_available_modes_in_' = f.cache
     /\ input_mode_' = f.input_mode
     /\ output_mode_' = f.output_mode
     /\ state_adquired_' = f.state_adquired
     /\ motion_reference_adquired_' = f.reference_adquired
     /\ last' = [NoObs EXCEPT !.op = "setControlMode",
                   !.request = f.request, !.desired = f.desired,
                   !.candidate = f.candidate,
                   !.wasEstablished = f.wasEstablished,
                   !.success = f.success, !.failedAt = f.failedAt,
                   !.listCalls = f.listCalls, !.listAnswer = f.listAnswer,
                   !.platReq = f.platReq, !.setMode = f.setMode,
                   !.modeFound = f.modeFound,
                   !.platAccepted = (f.platReq # <<>> /\ reply.ok /\ reply.success),
                   !.setModeRet = (f.setMode # <<>> /\ setModeResult)]
  /\ UNCHANGED call
  /\ UNCHANGED << phase, use_bypass_, prefered_output_mode_,
                  controller_available_modes_in_, controller_available_modes_out_,
                  platform_info_, pose_, twist_, ref_pose_, ref_twist_, ref_traj_ >>

\* ------------------------------------------------------ sample callbacks
\* state_callback: the synchronised pose / twist pair
StateCallback(pose_msg, twist_msg) ==
  /\ phase = "running"
  /\ state_adquired_' = TRUE
  /\ pose_' = pose_msg
  /\ twist_' = twist_msg
  /\ last' = [NoObs EXCEPT !.op = "state", !.received = <<pose_msg, twist_msg>>,
                !.updateState = IF ~bypass_controller_
                                THEN << <<pose_msg, twist_msg>> >> ELSE <<>>]
  /\ UNCHANGED call
  /\ UNCHANGED << phase, use_bypass_, prefered_output_mode_,
                  controller_available_modes_in_, controller_available_modes_out_,
                  platform_available_modes_in_, control_mode_established_,
                  motion_reference_adquired_, bypass_controller_, input_mode_,
                  output_mode_, platform_info_, ref_pose_, ref_twist_, ref_traj_ >>

\* ref_pose_callback that forwards the sample whether bypassing or not
RefPoseCallback_AlwaysForwards(msg) ==
  /\ phase = "running"
  /\ motion_reference_adquired_' = TRUE
  /\ ref_pose_' = msg
  /\ last' = [NoObs EXCEPT !.op = "ref_pose", !.received = <<msg>>,
                !.updateReference = << <<"pose", msg>> >>]
  /\ UNCHANGED call
  /\ UNCHANGED << phase, use_bypass_, prefered_output_mode_,
                  controller_available_modes_in_, controller_available_modes_out_,
                  platform_available_modes_in_, control_mode_established_,
                  state_adquired_, bypass_controller_, input_mode_, output_mode_,
                  platform_info_, pose_, twist_, ref_twist_, ref_traj_ >>

\* ref_pose_callback
RefPoseCallback(msg) ==
  /\ phase = "running"
  /\ motion_reference_adquired_' = TRUE
  /\ ref_pose_' = msg
  /\ last' = [NoObs EXCEPT !.op = "ref_pose", !.received = <<msg>>,
                !.updateReference = IF ~bypass_controller_
                                    THEN << <<"pose", msg>> >> ELSE <<>>]
  /\ UNCHANGED call
  /\ UNCHANGED << phase, use_bypass_, prefered_output_mode_,
                  controller_available_modes_in_, controller_available_modes_out_,
                  platform_available_modes_in_, control_mode_established_,
                  state_adquired_, bypass_controller_, input_mode_, output_mode_,
                  platform_info_, pose_, twist_, ref_twist_, ref_traj_ >>

RefTwistCallback(msg) ==
  /\ phase = "running"
  /\ motion_reference_adquired_' = TRUE
  /\ ref_twist_' = msg
  /\ last' = [NoObs EXCEPT !.op = "ref_twist", !.received = <<msg>>,
                !.updateReference = IF ~bypass_controller_
                                    THEN << <<"twist", msg>> >> ELSE <<>>]
  /\ UNCHANGED call
  /\ UNCHANGED << phase, use_bypass_, prefered_output_mode_,
                  controller_available_modes_in_, controller_available_modes_out_,
                  platform_available_modes_in_, control_mode_established_,
                  state_adquired_, bypass_controller_, input_mode_, output_mode_,
                  platform_info_, pose_, twist_, ref_pose_, ref_traj_ >>

\* a JointTrajectoryPoint carries no header: the payload alone
RefTrajCallback(msg) ==
  /\ phase = "running"
  /\ motion_reference_adquired_' = TRUE
  /\ ref_traj_' = msg
  /\ last' = [NoObs EXCEPT !.op = "ref_traj", !.received = <<msg>>,
                !.updateReference = IF ~bypass_controller_
                                    THEN << <<"traj", msg>> >> ELSE <<>>]
  /\ UNCHANGED call
  /\ UNCHANGED << phase, use_bypass_, prefered_output_mode_,
                  controller_available_modes_in_, controller_available_modes_out_,
                  platform_available_modes_in_, control_mode_established_,
                  state_adquired_, bypass_controller_, input_mode_, output_mode_,
                  platform_info_, pose_, twist_, ref_pose_, ref_twist_ >>

PlatformInfoCallback(msg) ==
  /\ phase = "running"
  /\ platform_info_' = msg
  /\ last' = [NoObs EXCEPT !.op = "platform_info", !.received = <<msg>>]
  /\ UNCHANGED call
  /\ UNCHANGED << phase, use_bypass_, prefered_output_mode_,
                  controller_available_modes_in_, controller_available_modes_out_,
                  platform_available_modes_in_, control_mode_established_,
                  motion_reference_adquired_, state_adquired_, bypass_controller_,
                  input_mode_, output_mode_, pose_, twist_, ref_pose_, ref_twist_,
                  ref_traj_ >>

\* ----------------------------------------------------------- control loop
\* what a timer tick does to the outside when it does nothing
Quiet == [ computeOutput |-> 0, nowCalls |-> 0,
           pubPose |-> <<>>, pubTwist |-> <<>>, pubThrust |-> <<>> ]

\* sendCommand whose direct branch does not publish the thrust
sendCommand_NoThrust(now, computed) ==
  IF bypass_controller_
  THEN IF ~motion_reference_adquired_
       THEN Quiet
       ELSE [Quiet EXCEPT !.pubPose = <<ref_pose_>>, !.pubTwist = <<ref_twist_>>]
  ELSE LET pose == Msg(computed, now)
           twist == Msg(computed, pose.stamp)
       IN [ computeOutput |-> 1, nowCalls |-> 1,
            pubPose |-> <<pose>>, pubTwist |-> <<twist>>, pubThrust |-> <<>> ]

\* sendCommand whose bypass branch has been lost: it always computes
sendCommand_NoBypassBranch(now, computed) ==
  LET pose == Msg(computed, now)
      twist == Msg(computed, pose.stamp)
      thrust == Msg(computed, pose.stamp)
  IN [ computeOutput |-> 1, nowCalls |-> 1,
       pubPose |-> <<pose>>, pubTwist |-> <<twist>>, pubThrust |-> <<thrust>> ]

\* sendCommand that leaves the twist's stamp as computeOutput gave it
sendCommand_TwistNotStamped(now, computed) ==
  IF bypass_controller_
  THEN IF ~motion_reference_adquired_
       THEN Quiet
       ELSE [Quiet EXCEPT !.pubPose = <<ref_pose_>>, !.pubTwist = <<ref_twist_>>]
  ELSE LET pose == Msg(computed, now)
           twist == Msg(computed, 0)
           thrust == Msg(computed, pose.stamp)
       IN [ computeOutput |-> 1, nowCalls |-> 1,
            pubPose |-> <<pose>>, pubTwist |-> <<twist>>, pubThrust |-> <<thrust>> ]

\* sendCommand: `now` is what the node's clock reads, `computed` the payload
\* the subclass's computeOutput writes into pose, twist and thrust
sendCommand(now, computed) ==
  IF bypass_controller_
  THEN IF ~motion_reference_adquired_
       THEN Quiet
       ELSE [Quiet EXCEPT !.pubPose = <<ref_pose_>>, !.pubTwist = <<ref_twist_>>]
  ELSE LET pose == Msg(computed, now)
           twist == Msg(computed, pose.stamp)
           thrust == Msg(computed, pose.stamp)
       IN [ computeOutput |-> 1, nowCalls |-> 1,
            pubPose |-> <<pose>>, pubTwist |-> <<twist>>, pubThrust |-> <<thrust>> ]

\* control_timer_callback without the wait for a state sample
control_timer_callback_NoStateWait(now, computed) ==
  IF ~platform_info_.offboard \/ ~platform_info_.armed THEN Quiet
  ELSE IF ~control_mode_established_ THEN Quiet
  ELSE sendCommand(now, computed)

\* control_timer_callback: the three early returns, then sendCommand
control_timer_callback(now, computed) ==
  IF ~platform_info_.offboard \/ ~platform_info_.armed THEN Quiet
  ELSE IF ~control_mode_established_ THEN Quiet
  ELSE IF ~state_adquired_ THEN Quiet
  ELSE sendCommand(now, computed)

ControlTimerCallback(now, computed) ==
  /\ phase = "running"
  /\ LET r == control_timer_callback(now, computed) IN
     last' = [NoObs EXCEPT !.op = "timer", !.now = now,
                !.computeOutput = r.computeOutput, !.nowCalls = r.nowCalls,
                !.pubPose = r.pubPose, !.pubTwist = r.pubTwist,
                !.pubThrust = r.pubThrust]
  /\ UNCHANGED call
  /\ UNCHANGED << phase, use_bypass_, prefered_output_mode_,
                  controller_available_modes_in_, controller_available_modes_out_,
                  platform_available_modes_in_, control_mode_established_,
                  motion_reference_adquired_, state_adquired_, bypass_controller_,
                  input_mode_, output_mode_, platform_info_, pose_, twist_,
                  ref_pose_, ref_twist_, ref_traj_ >>

\* ---------------------------------------------------------- specification
\* a sample sent by the environment: its payload and the time it was stamped
Msgs == { Msg(v, v) : v \in Vals }
PlatformInfos == [armed : BOOLEAN, offboard : BOOLEAN]
PlatformReplies == { [ok |-> FALSE, success |-> FALSE],
                     [ok |-> TRUE, success |-> FALSE],
                     [ok |-> TRUE, success |-> TRUE] }
Answers(lists) == { [ok |-> FALSE, modes |-> <<>>] }
                  \cup { [ok |-> TRUE, modes |-> l] : l \in lists }
\* the list service is asked only while nothing is cached: its answer is
\* drawn then, and fixed otherwise
AnswersNow(lists) ==
  IF platform_available_modes_in_ = <<>> THEN Answers(lists)
  ELSE { [ok |-> FALSE, modes |-> <<>>] }

\* The control loop with one controller: it takes HOVER and 0x20 as input and
\* gives 0x20 as output, the platform lists 0x20.
LoopReqModes == {16, 32}
LoopLists == { <<>>, <<32>> }

Next ==
  \/ \E b \in BOOLEAN : Initialize(b, <<32, 16>>, <<32>>)
  \/ \E m \in LoopReqModes, a \in AnswersNow(LoopLists), r \in PlatformReplies,
        sm \in BOOLEAN :
       SetControlModeSrvCall(m, a, r, sm)
  \/ \E v \in Vals : StateCallback(v, v)
  \/ \E msg \in Msgs : RefPoseCallback(msg)
  \/ \E msg \in Msgs : RefTwistCallback(msg)
  \/ \E v \in Vals : RefTrajCallback(v)
  \/ \E msg \in PlatformInfos : PlatformInfoCallback(msg)
  \/ \E t \in Times, c \in Vals : ControlTimerCallback(t, c)

Spec == Init /\ [][Next]_vars

\* The negotiation alone, over the configurations of the controller and the
\* lists of the platform: no sample arrives and no timer fires.
NextNeg ==
  \/ \E b \in BOOLEAN, ins \in InConfigs, outs \in OutConfigs : Initialize(b, ins, outs)
  \/ \E m \in ReqModes, a \in AnswersNow(PlatformLists), r \in PlatformReplies,
        sm \in BOOLEAN :
       SetControlModeSrvCall(m, a, r, sm)

SpecNeg == Init /\ [][NextNeg]_vars

\* The control loop with the timer firing again and again: control_timer_ is
\* a periodic timer of the node, created in initialize and never cancelled.
\* No reference sample arrives here: the direct path of the loop reads none.
Tick == \E t \in Times, c \in Vals : ControlTimerCallback(t, c)
NextLive ==
  \/ \E b \in BOOLEAN : Initialize(b, <<32, 16>>, <<32>>)
  \/ \E m \in LoopReqModes, a \in AnswersNow(LoopLists), r \in PlatformReplies,
        sm \in BOOLEAN :
       SetControlModeSrvCall(m, a, r, sm)
  \/ \E v \in Vals : StateCallback(v, v)
  \/ \E msg \in PlatformInfos : PlatformInfoCallback(msg)
  \/ Tick

SpecLive == Init /\ [][NextLive]_vars /\ WF_vars(Tick)

\* The helper functions on their own: one call, its arguments drawn at the
\* start, the object as constructed.
SeqsUpTo(S, n) == UNION { [1..k -> S] : k \in 0..n }
MatchModes == {0, 16, 18, 22, 33}
MatchMasks == {MATCH_ALL, MATCH_MODE_AND_FRAME, MATCH_MODE}
MatchCalls ==
  { [NoCall EXCEPT !.fn = "findBestMatchWithMask", !.mode = m, !.mode_list = l,
                   !.mask = k] :
      m \in MatchModes, l \in SeqsUpTo(MatchModes, MaxLen), k \in MatchMasks }
\* the controller's output modes as setOutputControlModesAvailables keeps them
SelectCalls ==
  { [NoCall EXCEPT !.fn = "findSuitableOutputControlMode", !.prefered = p,
                   !.modes_out = setOutputControlModesAvailables(o),
                   !.mode_list = l] :
      p \in {0, 32, 40}, o \in SeqsUpTo({16, 32, 48}, MaxLen),
      l \in SeqsUpTo({32, 40, 48}, MaxLen) }

progVars == << phase, use_bypass_, prefered_output_mode_,
               controller_available_modes_in_, controller_available_modes_out_,
               platform_available_modes_in_, control_mode_established_,
               motion_reference_adquired_, state_adquired_, bypass_controller_,
               input_mode_, output_mode_, platform_info_, pose_, twist_,
               ref_pose_, ref_twist_, ref_traj_, last >>

InitFn ==
  /\ phase = "constructed"
  /\ use_bypass_ = FALSE
  /\ prefered_output_mode_ = 0
  /\ controller_available_modes_in_ = <<>>
  /\ controller_available_modes_out_ = <<>>
  /\ platform_available_modes_in_ = <<>>
  /\ control_mode_established_ = FALSE
  /\ motion_reference_adquired_ = FALSE
  /\ state_adquired_ = FALSE
  /\ bypass_controller_ = FALSE
  /\ input_mode_ = 0
  /\ output_mode_ = 0
  /\ platform_info_ = [armed |-> FALSE, offboard |-> FALSE]
  /\ pose_ = 0
  /\ twist_ = 0
  /\ ref_pose_ = DefaultMsg
  /\ ref_twist_ = DefaultMsg
  /\ ref_traj_ = 0
  /\ last = NoObs
  /\ call \in MatchCalls \cup SelectCalls

FindBestMatchCall ==
  /\ call.fn = "findBestMatchWithMask" /\ ~call.done
  /\ call' = [call EXCEPT !.done = TRUE,
                 !.ret = findBestMatchWithMask(call.mode, call.mode_list, call.mask)]
  /\ UNCHANGED progVars

SelectOutputCall ==
  /\ call.fn = "findSuitableOutputControlMode" /\ ~call.done
  /\ \E r \in { findSuitableOutputControlModeForPlatformInputMode(
                    0, call.prefered, call.modes_out, call.mode_list) } :
       call' = [call EXCEPT !.done = TRUE, !.ok = r.ret, !.ret = r.output_mode]
  /\ UNCHANGED progVars

NextFn == FindBestMatchCall \/ SelectOutputCall

SpecFn == InitFn /\ [][NextFn]_vars

\* ================================================================ claims
ModeClass(m) == BitAnd(m, MATCH_MODE)
Elems(seq) == { seq[i] : i \in DOMAIN seq }
IsTimer == last.op = "timer"
IsSrv == last.op = "setControlMode"
\* the tick called computeOutput or published something
Dispatched ==
  \/ last.computeOutput > 0
  \/ last.pubPose # <<>> \/ last.pubTwist # <<>> \/ last.pubThrust # <<>>
\* the tick called no subclass hook at all
NoHookCalled ==
  last.computeOutput = 0 /\ last.updateState = <<>> /\ last.updateReference = <<>>
    /\ last.setMode = <<>>

\* C1: a timer tick dispatches (computeOutput, bypass republish, any publish)
\* only if the platform is armed and offboard, a mode is established and a
\* state sample has been acquired; otherwise it publishes nothing and calls no
\* subclass hook.  (The tick leaves the four flags as they were.)
C1_TickGated ==
  IsTimer =>
    LET open == platform_info_.armed /\ platform_info_.offboard
                /\ control_mode_established_ /\ state_adquired_
    IN /\ Dispatched => open
       /\ ~open => ~Dispatched /\ NoHookCalled

C1_Witness ==
  IsTimer /\ Dispatched /\ platform_info_.armed /\ platform_info_.offboard
    /\ control_mode_established_ /\ state_adquired_

\* C2 (as claimed): every request that ends with success, on the bypass path
\* or the direct path, returns with state-acquired and reference-acquired false.
C2_SuccessClearsFlags ==
  (IsSrv /\ last.success) => ~state_adquired_ /\ ~motion_reference_adquired_

\* the controller's output modes that take part in the selection (neither
\* UNSET nor HOVER class) and have a match in the platform's list
Matchable ==
  { i \in DOMAIN controller_available_modes_out_ :
      /\ ModeClass(controller_available_modes_out_[i]) # UNSET_MODE_MASK
      /\ ModeClass(controller_available_modes_out_[i]) # HOVER_MODE_MASK
      /\ controller_available_modes_out_[i] \in Elems(platform_available_modes_in_) }
\* a request that got past the listing and did not take the bypass
NonBypassNegotiation == IsSrv /\ last.failedAt # "list" /\ ~bypass_controller_

\* C3 (as claimed): with no preferred output mode and no bypass, the selection
\* picks the last entry of the controller's output list that has a platform
\* match, and fails only when no entry has one.
C3_LastMatchingOutputWins ==
  (NonBypassNegotiation /\ prefered_output_mode_ = 0) =>
    IF Matchable = {}
    THEN last.failedAt = "output"
    ELSE /\ last.failedAt # "output"
         /\ last.candidate =
              controller_available_modes_out_[
                CHOOSE i \in Matchable : \A j \in Matchable : j <= i]

\* C4 (as claimed): in a non-bypass negotiation that reaches the input check,
\* the request is rejected whenever the input's class nibble is below the
\* output's, and is never rejected on level grounds when it is not below.
C4_LevelCheckByClassNibble ==
  (NonBypassNegotiation /\ last.failedAt # "output") =>
    /\ ModeClass(last.desired) < ModeClass(last.candidate)
         => last.failedAt \in {"level", "input"}
    /\ ModeClass(last.desired) >= ModeClass(last.candidate)
         => last.failedAt # "level"

\* C5: while bypass is active and a mode is established, a tick that publishes
\* republishes the stored reference pose and twist unchanged, and no tick calls
\* computeOutput or publishes a thrust.
C5_BypassRepublishes ==
  (IsTimer /\ bypass_controller_ /\ control_mode_established_) =>
    /\ last.computeOutput = 0
    /\ last.pubThrust = <<>>
    /\ Dispatched => last.pubPose = <<ref_pose_>> /\ last.pubTwist = <<ref_twist_>>

C5_Witness ==
  IsTimer /\ bypass_controller_ /\ control_mode_established_ /\ Dispatched
    /\ ref_pose_ # DefaultMsg /\ ref_twist_ # DefaultMsg

\* C6: with a mode established without bypass, every eligible tick calls
\* computeOutput once and publishes one pose, one twist and one thrust, all
\* stamped with the one clock reading of that tick.
C6_DirectTickPublishesThree ==
  (IsTimer /\ control_mode_established_ /\ ~bypass_controller_
     /\ platform_info_.armed /\ platform_info_.offboard /\ state_adquired_) =>
    /\ last.computeOutput = 1
    /\ last.nowCalls = 1
    /\ Len(last.pubPose) = 1 /\ Len(last.pubTwist) = 1 /\ Len(last.pubThrust) = 1
    /\ last.pubPose[1].stamp = last.now
    /\ last.pubTwist[1].stamp = last.now
    /\ last.pubThrust[1].stamp = last.now

C6_Witness ==
  IsTimer /\ last.computeOutput = 1 /\ last.now > 0
    /\ Len(last.pubThrust) = 1 /\ last.pubThrust[1].stamp = last.now

\* C7: a request whose desired input mode is of class UNSET or HOVER never
\* returns with bypass set, whatever use_bypass and the platform's list are.
C7_NoBypassForUnsetOrHover ==
  (IsSrv /\ ModeClass(last.desired) \in {UNSET_MODE_MASK, HOVER_MODE_MASK}) =>
    ~bypass_controller_

C7_Witness ==
  IsSrv /\ use_bypass_ /\ ModeClass(last.desired) = HOVER_MODE_MASK
    /\ last.desired \in Elems(platform_available_modes_in_)
    /\ ~bypass_controller_

\* C8: with bypass enabled, a desired mode of neither UNSET nor HOVER class
\* that the platform lists takes the bypass path with the desired mode as the
\* mode requested from the platform, whatever the controller's lists hold.
C8_BypassWhenPlatformHasMode ==
  (IsSrv /\ use_bypass_
     /\ ModeClass(last.desired) \notin {UNSET_MODE_MASK, HOVER_MODE_MASK}
     /\ last.desired \in Elems(platform_available_modes_in_)) =>
    /\ bypass_controller_
    /\ last.candidate = last.desired
    /\ last.platReq = <<last.desired>>
    /\ last.failedAt \in {"none", "platform", "setMode"}

C8_Witness ==
  IsSrv /\ use_bypass_ /\ last.desired = 85 /\ bypass_controller_ /\ last.success
    /\ controller_available_modes_in_ = <<>> /\ controller_available_modes_out_ = <<>>
    /\ output_mode_ = 85

\* C9: a request made while no list is cached, whose list call answers with an
\* empty list, fails, leaves established as it was before the request, and
\* makes no set-platform-mode request and no setMode call.
C9_EmptyListFails ==
  (IsSrv /\ last.listCalls = 1 /\ last.listAnswer = "empty") =>
    /\ ~last.success
    /\ control_mode_established_ = last.wasEstablished
    /\ last.platReq = <<>>
    /\ last.setMode = <<>>

C9_Witness ==
  IsSrv /\ last.listCalls = 1 /\ last.listAnswer = "empty" /\ ~last.success

\* C10: a request that fails, for any reason and also when a mode was
\* established before it, leaves established false; established becomes true
\* only by a request that succeeds, so it stays false until then; and a tick
\* publishes nothing while it is false.
C10_FailureUnestablishes ==
  /\ []((IsSrv /\ ~last.success) => ~control_mode_established_)
  /\ []((IsTimer /\ ~control_mode_established_) => ~Dispatched)
  /\ [][(control_mode_established_' /\ ~control_mode_established_)
          => (last'.op = "setControlMode" /\ last'.success)]_vars

C10_Witness ==
  IsSrv /\ ~last.success /\ last.wasEstablished /\ last.failedAt = "platform"
    /\ ~control_mode_established_

\* the four fields of the negotiation state
NegotiationState ==
  << control_mode_established_, bypass_controller_, input_mode_, output_mode_ >>
\* the step is a setControlMode request that ends in failure
FailedRequestStep == last'.op = "setControlMode" /\ ~last'.success

\* C11 (as claimed): a request that ends in failure leaves established,
\* bypass, input_mode and output_mode exactly as they were before it.
C11_FailureLeavesNegotiationState ==
  [][FailedRequestStep => NegotiationState' = NegotiationState]_vars

\* C11 (amended): the four fields change only in a setControlMode request.  A
\* request that fails returns with established false; it leaves input_mode and
\* output_mode as they were unless the failure is the subclass's rejection,
\* which comes after the requested pair has been stored; it leaves bypass as
\* it was when it fails at the listing, and returns with bypass false when it
\* fails at the output selection or the input check.
C11_FailureEffects ==
  /\ [][NegotiationState' # NegotiationState => last'.op = "setControlMode"]_vars
  /\ [][FailedRequestStep =>
          /\ ~control_mode_established_'
          /\ last'.failedAt \in {"list", "output", "input", "level", "platform"}
               => input_mode_' = input_mode_ /\ output_mode_' = output_mode_
          /\ last'.failedAt = "setMode"
               => input_mode_' = last'.request /\ output_mode_' = last'.candidate
          /\ last'.failedAt = "list" => bypass_controller_' = bypass_controller_
          /\ last'.failedAt \in {"output", "input", "level"} => ~bypass_controller_'
       ]_vars

C11_Witness ==
  IsSrv /\ ~last.success /\ last.failedAt = "platform" /\ last.wasEstablished
    /\ input_mode_ # UNSET_MODE_MASK /\ output_mode_ # last.candidate

\* the positions of call.mode_list that match call.mode under call.mask
MaskedHits ==
  { i \in DOMAIN call.mode_list :
      BitAnd(call.mode_list[i], call.mask) = BitAnd(call.mode, call.mask) }
LastOf(S) == CHOOSE i \in S : \A j \in S : j <= i
FirstOf(S) == CHOOSE i \in S : \A j \in S : i <= j
MatchDone == call.fn = "findBestMatchWithMask" /\ call.done

\* C12: findBestMatchWithMask returns the mode itself whenever the list holds
\* it, at any position; otherwise the last candidate of the list that matches
\* under the mask; and 0 when no candidate matches.
C12_BestMatch ==
  MatchDone =>
    call.ret = IF call.mode \in Elems(call.mode_list) THEN call.mode
               ELSE IF MaskedHits = {} THEN 0
               ELSE call.mode_list[LastOf(MaskedHits)]

C12_Witness ==
  MatchDone /\ call.mode \notin Elems(call.mode_list)
    /\ Cardinality(MaskedHits) >= 2
    /\ call.mode_list[FirstOf(MaskedHits)] # call.mode_list[LastOf(MaskedHits)]
    /\ call.ret = call.mode_list[LastOf(MaskedHits)]

\* C13: once the platform's list is cached (a list-modes call returned a
\* non-empty list) no step changes it and no setControlMode request calls
\* list-modes again; while nothing is cached every setControlMode request calls
\* list-modes once, and a call that fails or returns an empty list leaves the
\* cache empty, so that the next request calls again.
C13_ListCachedOnce ==
  /\ [][platform_available_modes_in_ # <<>> =>
          /\ platform_available_modes_in_' = platform_available_modes_in_
          /\ last'.op = "setControlMode" => last'.listCalls = 0]_vars
  /\ [][(platform_available_modes_in_ = <<>> /\ last'.op = "setControlMode") =>
          /\ last'.listCalls = 1
          /\ last'.listAnswer \in {"error", "empty"} =>
               platform_available_modes_in_' = <<>>
          /\ last'.listAnswer = "modes" => platform_available_modes_in_' # <<>>]_vars

C13_Witness ==
  IsSrv /\ last.listCalls = 0 /\ last.listAnswer = "none"
    /\ platform_available_modes_in_ # <<>> /\ last.success

\* the negotiation got as far as checkSuitabilityInputMode
InputChecked == NonBypassNegotiation /\ last.failedAt # "output"

\* C14 (as claimed): a non-bypass negotiation passes the input-membership check
\* exactly when the desired input mode is of class HOVER and some entry of the
\* controller's input list has the same class nibble, or the desired input
\* mode is an entry of that list; when it does not pass, the request fails with
\* no set-platform-mode request made.
C14_InputMembershipByClass ==
  InputChecked =>
    /\ last.modeFound <=>
         \/ /\ ModeClass(last.desired) = HOVER_MODE_MASK
            /\ \E m \in Elems(controller_available_modes_in_) :
                 ModeClass(m) = ModeClass(last.desired)
         \/ last.desired \in Elems(controller_available_modes_in_)
    /\ ~last.modeFound => ~last.success /\ last.platReq = <<>>

\* C15: when the platform has accepted the mode-set request, setMode is called
\* once, with (UNSET, UNSET) if the controller is bypassed and with the
\* requested input mode and the negotiated output mode (the one sent to the
\* platform) otherwise; the response's success and the established flag both
\* equal what setMode returned.
C15_SetModeAfterAcceptance ==
  (IsSrv /\ last.platAccepted) =>
    /\ last.setMode =
         << IF bypass_controller_ THEN <<UNSET_MODE_MASK, UNSET_MODE_MASK>>
            ELSE <<last.request, last.platReq[1]>> >>
    /\ last.success = last.setModeRet
    /\ control_mode_established_ = last.setModeRet

C15_Witness ==
  IsSrv /\ last.platAccepted /\ bypass_controller_ /\ ~last.setModeRet
    /\ last.setMode # <<>> /\ last.request # UNSET_MODE_MASK

\* what updateReference is called with for a reference sample of kind k,
\* given that no handler changes bypass_controller_ but setControlMode
ForwardedReference(k) ==
  IF bypass_controller_ THEN <<>> ELSE << <<k, last.received[1]>> >>

\* C16: a state sample is stored in pose_ / twist_ and sets state_adquired_; a
\* pose, twist or trajectory reference is stored in its member and sets
\* motion_reference_adquired_; each is handed to updateState / updateReference
\* exactly when the controller is not bypassed as it arrives, and to no other
\* hook; a platform-status sample is stored and no hook is called.
C16_SamplesStoredAndForwarded ==
  /\ last.op = "state" =>
       /\ state_adquired_ /\ <<pose_, twist_>> = last.received
       /\ last.updateState = IF bypass_controller_ THEN <<>> ELSE <<last.received>>
       /\ last.updateReference = <<>> /\ last.computeOutput = 0
  /\ last.op = "ref_pose" =>
       /\ motion_reference_adquired_ /\ ref_pose_ = last.received[1]
       /\ last.updateReference = ForwardedReference("pose")
       /\ last.updateState = <<>> /\ last.computeOutput = 0
  /\ last.op = "ref_twist" =>
       /\ motion_reference_adquired_ /\ ref_twist_ = last.received[1]
       /\ last.updateReference = ForwardedReference("twist")
       /\ last.updateState = <<>> /\ last.computeOutput = 0
  /\ last.op = "ref_traj" =>
       /\ motion_reference_adquired_ /\ ref_traj_ = last.received[1]
       /\ last.updateReference = ForwardedReference("traj")
       /\ last.updateState = <<>> /\ last.computeOutput = 0
  /\ last.op = "platform_info" =>
       /\ platform_info_ = last.received[1]
       /\ last.updateState = <<>> /\ last.updateReference = <<>>
       /\ last.computeOutput = 0

C16_Witness ==
  last.op = "ref_pose" /\ bypass_controller_ /\ ref_pose_ # DefaultMsg
    /\ last.updateReference = <<>> /\ motion_reference_adquired_

SelectDone == call.fn = "findSuitableOutputControlMode" /\ call.done
\* the entries of the controller's output list that the scan does not skip
ScannedOut ==
  { i \in DOMAIN call.modes_out :
      /\ ModeClass(call.modes_out[i]) # UNSET_MODE_MASK
      /\ ModeClass(call.modes_out[i]) # HOVER_MODE_MASK }
PreferedAvailable == call.prefered # 0 /\ call.prefered \in Elems(call.mode_list)

\* C17: findSuitableOutputControlModeForPlatformInputMode, with a non-zero
\* preferred output mode that the platform lists, succeeds with the preferred
\* mode whatever the controller's output list holds; with a preferred mode
\* that is zero or not listed by the platform, the result is that of the scan
\* of the controller's output list: the last scanned entry if the platform
\* lists it, failure if it does not or nothing is scanned.
C17_PreferedThenScan ==
  SelectDone =>
    IF PreferedAvailable
    THEN call.ok /\ call.ret = call.prefered
    ELSE IF ScannedOut # {}
            /\ call.modes_out[LastOf(ScannedOut)] \in Elems(call.mode_list)
         THEN call.ok /\ call.ret = call.modes_out[LastOf(ScannedOut)]
         ELSE ~call.ok

C17_Witness ==
  SelectDone /\ PreferedAvailable /\ call.prefered \notin Elems(call.modes_out)
    /\ ScannedOut # {}
    /\ call.modes_out[LastOf(ScannedOut)] \in Elems(call.mode_list)
    /\ call.ok /\ call.ret = call.prefered

\* C18 (as claimed): a tick that publishes while the controller is bypassed
\* stamps the pose and the twist it publishes with the clock reading of that
\* tick, not with the stamp the reference was received with.
C18_BypassFreshStamp ==
  (IsTimer /\ bypass_controller_ /\ control_mode_established_ /\ Dispatched) =>
    /\ last.nowCalls = 1
    /\ last.pubPose[1].stamp = last.now
    /\ last.pubTwist[1].stamp = last.now

\* C19: one setControlMode request sends at most one set-platform-mode request
\* and calls setMode at most once, and calls setMode only when the platform
\* accepted the request sent; a request that fails at listing, at the output
\* selection or at the input check sends nothing to the platform and does not
\* call setMode, and a request the platform rejects does not call setMode.
C19_OnePlatformRequestThenSetMode ==
  IsSrv =>
    /\ Len(last.platReq) <= 1 /\ Len(last.setMode) <= 1
    /\ last.setMode # <<>> => last.platReq # <<>> /\ last.platAccepted
    /\ last.failedAt \in {"list", "output", "input", "level"} =>
         last.platReq = <<>> /\ last.setMode = <<>>
    /\ (last.platReq # <<>> /\ ~last.platAccepted) =>
         last.setMode = <<>> /\ ~last.success

C19_Witness ==
  IsSrv /\ last.platReq # <<>> /\ ~last.platAccepted /\ bypass_controller_
    /\ last.setMode = <<>> /\ last.failedAt = "platform"

\* C20: the mode carried by a set-platform-mode request is never 0 and is an
\* element of the cached platform list; the stored output mode of a state with
\* a mode established is therefore a non-zero element of that list.
C20_RequestedModeIsAdvertised ==
  /\ (IsSrv /\ last.platReq # <<>>) =>
       /\ last.platReq[1] # 0
       /\ last.platReq[1] \in Elems(platform_available_modes_in_)
  /\ control_mode_established_ =>
       /\ output_mode_ # 0
       /\ output_mode_ \in Elems(platform_available_modes_in_)

C20_Witness ==
  IsSrv /\ control_mode_established_ /\ ~bypass_controller_
    /\ last.platReq = <<output_mode_>>
    /\ Len(platform_available_modes_in_) > 1
    /\ output_mode_ \in Elems(platform_available_modes_in_)

\* C21: when a setControlMode request returns, by whichever of its returns,
\* the success flag of its response equals control_mode_established_.
C21_SuccessIsEstablished ==
  IsSrv => (last.success <=> control_mode_established_)

C21_Witness ==
  IsSrv /\ last.failedAt = "setMode" /\ ~bypass_controller_ /\ last.wasEstablished
    /\ ~last.success /\ ~control_mode_established_

\* C22 (as claimed): a tick of the bypassed controller publishes a pose only
\* if a reference pose has been received and a twist only if a reference
\* twist has been received: what it publishes is never a default-initialised
\* reference. (Every received reference differs from the default one.)
C22_BypassPublishesReceivedOnly ==
  (IsTimer /\ bypass_controller_ /\ control_mode_established_) =>
    /\ last.pubPose # <<>> => last.pubPose[1] # DefaultMsg
    /\ last.pubTwist # <<>> => last.pubTwist[1] # DefaultMsg

\* C23: a successful negotiation without bypass returns with state_adquired_
\* false; while the controller is not bypassed the flag is set again only by
\* a state sample, which is then handed to updateState; and a tick of the
\* controller that is not bypassed calls computeOutput or publishes only with
\* the flag set and the mode established. So no tick after such a
\* negotiation computes or publishes before a state sample has arrived after
\* it and has been forwarded, whatever was received before it.
C23_FreshStateBeforeCompute ==
  /\ [][(last'.op = "setControlMode" /\ last'.success /\ ~bypass_controller_')
          => ~state_adquired_']_vars
  /\ [][(~bypass_controller_' /\ state_adquired_' /\ ~state_adquired_)
          => /\ last'.op = "state"
             /\ last'.updateState = <<last'.received>>
             /\ <<pose_', twist_'>> = last'.received]_vars
  /\ []((IsTimer /\ ~bypass_controller_ /\ Dispatched)
          => state_adquired_ /\ control_mode_established_)

\* a tick after a negotiation without bypass that did nothing, although a
\* state sample had been received before the negotiation
C23_Witness ==
  IsTimer /\ control_mode_established_ /\ ~bypass_controller_
    /\ platform_info_.armed /\ platform_info_.offboard
    /\ ~state_adquired_ /\ pose_ # 0 /\ ~Dispatched

\* a mode is established without bypass, a state sample has arrived since,
\* and the platform is armed and offboard
Eligible ==
  /\ control_mode_established_ /\ ~bypass_controller_ /\ state_adquired_
  /\ platform_info_.armed /\ platform_info_.offboard
\* the tick called computeOutput and published a pose, a twist and a thrust
DirectTickDone ==
  /\ IsTimer /\ last.computeOutput = 1
  /\ Len(last.pubPose) = 1 /\ Len(last.pubTwist) = 1 /\ Len(last.pubThrust) = 1

\* C24: with the timer firing fairly, once a mode is established without
\* bypass, a state sample has arrived and the platform is armed and offboard,
\* a tick eventually calls computeOutput and publishes pose, twist and thrust,
\* unless the platform stops being armed and offboard or another
\* setControlMode request arrives first.
C24_EligibleLeadsToCommand ==
  Eligible ~>
    (DirectTickDone \/ ~platform_info_.armed \/ ~platform_info_.offboard \/ IsSrv)

C24_Witness ==
  DirectTickDone /\ Eligible /\ pose_ # 0 /\ last.pubThrust[1].stamp = last.now

====
